---- MODULE Spec2Model ----
(***************************************************************************)
(* Torivahti: a watcher that scrapes a classifieds search page, extracts   *)
(* listing records, filters them and consults a DynamoDB item holding the  *)
(* identifiers already seen (Watcher.py, pub_date_parser.py, main.py).     *)
(*                                                                         *)
(* Python values are modelled as follows.  An optional value (None or a    *)
(* value) is a sequence of length 0 or 1: <<>> is None, <<v>> is v.  A     *)
(* text is a sequence of tokens; a token is a maximal run of digits (kind  *)
(* "d", with its number) or a word between them (kind "w").  A datetime is *)
(* a number of seconds.                                                    *)
(***************************************************************************)
EXTENDS Integers, Sequences, FiniteSets, TLC

(* ------------------------------ bounds --------------------------------- *)
\* longest list of listing containers in a fetched page
MaxContainers == 2
\* largest listing identifier
MaxId == 2

(* --------------------------- program constants ------------------------- *)
DYNAMO_TABLE_NAME == "lautisvahti"
DYNAMO_OBJ_PRIMARY_KEY == 1234
SecondsPerDay == 86400
SecondsPerHour == 3600
SecondsPerMinute == 60

VARIABLES
  keywords,                 \* Watcher.keywords
  price_limit_min,          \* Watcher.price_limit_min
  price_limit_max,          \* Watcher.price_limit_max
  timespan_sec,             \* Watcher.timespan_sec
  server_time_offset_secs,  \* Watcher.server_time_offset_secs
  last_run,                 \* Watcher.last_run (optional datetime)
  now,                      \* the wall clock
  table,                    \* the DynamoDB table "lautisvahti": key -> item
  page,                     \* the listing containers the site serves, newest first
  unchangedSinceRun,        \* the last Watcher.run fetched the page and returned, and
                            \* neither the page nor the table changed since
  runObs,                   \* what the last Watcher.run did
  handlerObs,               \* what the last AWSHandler.run returned
  seenObs,                  \* what the last direct is_already_seen call returned
  insertObs                 \* what the last insert_prodcut_dynamo call did

vars == <<keywords, price_limit_min, price_limit_max, timespan_sec,
          server_time_offset_secs, last_run, now, table, page, unchangedSinceRun,
          runObs, handlerObs, seenObs, insertObs>>

(* ------------------------------- texts --------------------------------- *)
W(s) == [k |-> "w", n |-> 0, w |-> s]
D(i) == [k |-> "d", n |-> i, w |-> ""]

\* the elements of a sequence
Range(s) == {s[i] : i \in 1..Len(s)}

\* str.lower() on the words the pages use
Lower(s) ==
  CASE s = "Tänään" -> "tänään"
    [] s = "TÄNÄÄN" -> "tänään"
    [] s = "Eilen"  -> "eilen"
    [] s = "Eilenn" -> "eilenn"
    [] s = "Jou"    -> "jou"
    [] OTHER        -> s

\* re.search(pat, word) != None for the two day patterns
WordContains(word, pat) ==
  CASE pat = "tänään" -> word \in {"tänään"}
    [] pat = "eilen"  -> word \in {"eilen", "eilenn"}
    [] OTHER          -> FALSE

\* re.search("\d{1,}", text): the first run of digits, as an optional number
RECURSIVE FirstDigits(_)
FirstDigits(text) ==
  IF text = <<>> THEN <<>>
  ELSE IF Head(text).k = "d" THEN <<Head(text).n>>
  ELSE FirstDigits(Tail(text))

\* re.findall('\d{1,2}', text) mapped through int: every run of digits (of
\* at most three digits here), cut into groups of two digits from the left
RECURSIVE FindAll2(_)
FindAll2(text) ==
  IF text = <<>> THEN <<>>
  ELSE IF Head(text).k # "d" THEN FindAll2(Tail(text))
  ELSE IF Head(text).n < 100 THEN <<Head(text).n>> \o FindAll2(Tail(text))
  ELSE <<Head(text).n \div 10, Head(text).n % 10>> \o FindAll2(Tail(text))

\* list[-2:]
LastTwo(s) == IF Len(s) <= 2 THEN s ELSE SubSeq(s, Len(s) - 1, Len(s))

(* ------------------------------ datetimes ------------------------------ *)
HourOf(t)   == (t % SecondsPerDay) \div SecondsPerHour
MinuteOf(t) == (t % SecondsPerHour) \div SecondsPerMinute
SecondOf(t) == t % SecondsPerMinute

\* datetime.replace(hour=h): ValueError (<<>>) when h is no hour
ReplaceHour(t, h) ==
  IF h \in 0..23 THEN <<t - HourOf(t) * SecondsPerHour + h * SecondsPerHour>> ELSE <<>>
ReplaceMinute(t, m) ==
  IF m \in 0..59 THEN <<t - MinuteOf(t) * SecondsPerMinute + m * SecondsPerMinute>> ELSE <<>>
ReplaceSecond(t, s) == t - SecondOf(t) + s

\* pub_date_parser.get_timestamp(time_str) at clock reading t: an optional
\* datetime, <<>> being None
get_timestamp(time_str, t) ==
  LET ts == LastTwo(FindAll2(time_str))
      words == {Lower(tok.w) : tok \in {x \in Range(time_str) : x.k = "w"}}
      withHour == IF Len(ts) = 2 THEN ReplaceHour(t, ts[1]) ELSE <<t>>
      withMinute == IF Len(ts) = 2 /\ withHour # <<>>
                    THEN ReplaceMinute(withHour[1], ts[2]) ELSE withHour
      pub_time == IF Len(ts) = 2 /\ withMinute # <<>>
                  THEN <<ReplaceSecond(withMinute[1], 59)>> ELSE withMinute
  IN IF pub_time = <<>> THEN <<>>
     ELSE IF \E w \in words : WordContains(w, "tänään") THEN pub_time
     ELSE IF \E w \in words : WordContains(w, "eilen") THEN <<pub_time[1] - SecondsPerDay>>
     ELSE <<>>

(* --------------------------- the DynamoDB table ------------------------ *)
DigitStr == <<"0", "1", "2", "3", "4", "5", "6", "7", "8", "9">>

\* str(n) for a number n >= 0
RECURSIVE StrOf(_)
StrOf(n) == IF n < 10 THEN DigitStr[n + 1] ELSE StrOf(n \div 10) \o DigitStr[(n % 10) + 1]

\* int(s) for the decimal strings a number set holds
IntOf(s) == CHOOSE n \in 0..99 : StrOf(n) = s

\* the key is_already_seen and insert_prodcut_dynamo read under:
\* {'run_id': {'N': str(DYNAMO_OBJ_PRIMARY_KEY)}}
ReadKey == [type |-> "N", value |-> StrOf(DYNAMO_OBJ_PRIMARY_KEY)]
\* the key insert_prodcut_dynamo writes under: {'run_id': DYNAMO_TABLE_NAME}
WriteKey == [type |-> "S", value |-> DYNAMO_TABLE_NAME]
Keys == {ReadKey, WriteKey}

\* an item: absent, or present with or without a 'products' number set (NS),
\* whose members are decimal strings
NoItem == [exists |-> FALSE, hasProducts |-> FALSE, NS |-> {}]
ItemOf(ns) == [exists |-> TRUE, hasProducts |-> TRUE, NS |-> ns]
BareItem == [exists |-> TRUE, hasProducts |-> FALSE, NS |-> {}]

\* item.get('products', {}).get('NS', ...)
ProductsNS(item) == IF item.hasProducts THEN item.NS ELSE {}

\* Watcher.is_already_seen(product_id) on table tbl; up = get_item answers.
\* [raised, value]: the exception re-raised, or the boolean returned
is_already_seen(product_id, tbl, up) ==
  IF ~up THEN [raised |-> TRUE, value |-> FALSE]
  ELSE IF ~tbl[ReadKey].exists THEN [raised |-> TRUE, value |-> FALSE]
  ELSE [raised |-> FALSE, value |-> StrOf(product_id) \in ProductsNS(tbl[ReadKey])]

\* Watcher.insert_prodcut_dynamo(product_id); accepted = update_item takes
\* the string key.  [raised, table]: whether it raised, and the table after
insert_prodcut_dynamo(product_id, tbl, up, accepted) ==
  IF ~up \/ ~tbl[ReadKey].exists THEN [raised |-> TRUE, table |-> tbl]
  ELSE LET prods == {IntOf(s) : s \in ProductsNS(tbl[ReadKey])} \cup {product_id}
           set_  == {StrOf(n) : n \in prods}
       IN IF ~accepted THEN [raised |-> TRUE, table |-> tbl]
          ELSE [raised |-> FALSE,
                table  |-> [tbl EXCEPT ![WriteKey] = ItemOf(set_)]]

(* ----------------------------- price rule ------------------------------ *)
\* the price rule with the upper limit exclusive
PriceBelowMax(price, lo, hi) ==
  IF price = <<>> THEN TRUE
  ELSE price[1] >= lo /\ price[1] < hi

\* Watcher.is_within_pricelimit(price), price optional
is_within_pricelimit(price, lo, hi) ==
  IF price = <<>> THEN TRUE
  ELSE price[1] >= lo /\ price[1] <= hi

(* ------------------------------ Watcher.run ---------------------------- *)
\* Product(): every field None until run fills it in
Product(name, price, link, pub_time) ==
  [id |-> <<>>, name |-> name, price |-> price, link |-> link, pub_time |-> pub_time]

\* the local id of the loop body: int(re.search("\d{1,}", el.get('id'))[0]),
\* <<>> when it raises TypeError (no id attribute, or no digits in it)
ElementId(el) == IF el.id = <<>> THEN <<>> ELSE FirstDigits(el.id[1])

ElementLink(el) == IF el.href = <<>> THEN "Link Exception" ELSE el.href[1]

ElementName(el) ==
  IF ~el.desc \/ el.title = <<>> THEN "Name Exception" ELSE el.title[1]

ElementPrice(el) ==
  IF ~el.desc \/ el.price = <<>> THEN <<>> ELSE FirstDigits(el.price[1])

\* the publication-time step without the break on None
ElementPubTimeNoBreak(el, t) ==
  IF ~el.desc \/ el.date = <<>> THEN [break |-> FALSE, pub_time |-> <<>>]
  ELSE [break |-> FALSE, pub_time |-> get_timestamp(el.date[1], t)]

\* the publication-time step: "break" when get_timestamp returns None,
\* otherwise the value p.pub_time ends with (None when the text is missing)
ElementPubTime(el, t) ==
  IF ~el.desc \/ el.date = <<>> THEN [break |-> FALSE, pub_time |-> <<>>]
  ELSE LET pt == get_timestamp(el.date[1], t)
       IN [break |-> pt = <<>>, pub_time |-> pt]

\* one pass of the loop body over container el
LoopBody(el, t, tbl, up, lo, hi) ==
  LET id == ElementId(el)
      pt == ElementPubTime(el, t)
      p  == Product(ElementName(el), ElementPrice(el), ElementLink(el), pt.pub_time)
  IN IF id = <<>> THEN [kind |-> "raise", queried |-> <<>>, added |-> <<>>, id |-> <<>>]
     ELSE IF pt.break THEN [kind |-> "break", queried |-> <<>>, added |-> <<>>, id |-> id]
     ELSE LET seen == is_already_seen(id[1], tbl, up)
          IN IF seen.raised
             THEN [kind |-> "raise", queried |-> id, added |-> <<>>, id |-> id]
             ELSE IF ~seen.value /\ is_within_pricelimit(p.price, lo, hi)
             THEN [kind |-> "next", queried |-> id, added |-> <<p>>, id |-> id]
             ELSE [kind |-> "next", queried |-> id, added |-> <<>>, id |-> id]

\* the accumulator after the loop body ran over container i with result r:
\* products, the local ids of the products appended (ids), the ids asked of
\* is_already_seen (queries), the number of containers begun (entered)
Accumulate(acc, r, i) ==
  [acc EXCEPT !.entered = i,
              !.queries = @ \o r.queried,
              !.products = @ \o r.added,
              !.ids = @ \o (IF r.added = <<>> THEN <<>> ELSE r.id)]

\* the loop over bs.find_all(...) from container i on: an exception leaves
\* run without a list, a break ends the loop (brokeAt is the position of the
\* container that broke it, 0 if none), otherwise the next container follows
RECURSIVE Loop(_, _, _, _, _, _, _, _)
Continue(markup, i, acc, r, t, tbl, up, lo, hi) ==
  IF r.kind = "raise"
  THEN [Accumulate(acc, r, i) EXCEPT !.outcome = "raised", !.products = <<>>, !.ids = <<>>]
  ELSE IF r.kind = "break" THEN [Accumulate(acc, r, i) EXCEPT !.brokeAt = i]
  ELSE Loop(markup, i + 1, Accumulate(acc, r, i), t, tbl, up, lo, hi)

Loop(markup, i, acc, t, tbl, up, lo, hi) ==
  IF i > Len(markup) THEN acc
  ELSE Continue(markup, i, acc, LoopBody(markup[i], t, tbl, up, lo, hi),
                t, tbl, up, lo, hi)

NoRun == [outcome |-> "none", products |-> <<>>, ids |-> <<>>, queries |-> <<>>,
          entered |-> 0, brokeAt |-> 0, urlopen |-> 0]

\* Watcher.run() looking at the keyword list only after the fetch
WatcherRunFetchFirst(kws, markup, transport, t, tbl, up, lo, hi) ==
  IF transport.raises THEN [NoRun EXCEPT !.outcome = "returned", !.urlopen = 1]
  ELSE IF Len(kws) = 0 THEN [NoRun EXCEPT !.outcome = "raised", !.urlopen = 1]
  ELSE IF transport.status = 200
  THEN Loop(markup, 1, [NoRun EXCEPT !.outcome = "returned", !.urlopen = 1],
            t, tbl, up, lo, hi)
  ELSE [NoRun EXCEPT !.outcome = "returned", !.urlopen = 1]

\* Watcher.run() parsing the body whatever the status
WatcherRunAnyStatus(kws, markup, transport, t, tbl, up, lo, hi) ==
  IF Len(kws) = 0 THEN [NoRun EXCEPT !.outcome = "raised"]
  ELSE IF transport.raises THEN [NoRun EXCEPT !.outcome = "returned", !.urlopen = 1]
  ELSE Loop(markup, 1, [NoRun EXCEPT !.outcome = "returned", !.urlopen = 1],
            t, tbl, up, lo, hi)

\* Watcher.run() with keyword list kws at clock reading t: the page fetch ends
\* as transport says and, on status 200, parses to markup
WatcherRun(kws, markup, transport, t, tbl, up, lo, hi) ==
  IF Len(kws) = 0 THEN [NoRun EXCEPT !.outcome = "raised"]
  ELSE IF transport.raises THEN [NoRun EXCEPT !.outcome = "returned", !.urlopen = 1]
  ELSE IF transport.status = 200
  THEN Loop(markup, 1, [NoRun EXCEPT !.outcome = "returned", !.urlopen = 1],
            t, tbl, up, lo, hi)
  ELSE [NoRun EXCEPT !.outcome = "returned", !.urlopen = 1]

(* --------------------------- AWSHandler.run ---------------------------- *)
\* the timespan after the CloudWatch schedule was looked up: schedule is the
\* optional number of minutes read from the rule (<<>> when the lookup failed)
ScheduledTimespan(schedule, timespan) ==
  IF schedule # <<>> /\ schedule[1] > 0 THEN 60 * schedule[1] ELSE timespan

\* the value AWSHandler.run returns (<<>> is None) once Watcher.run ended as
\* run did; mailOk = ses.send_email returned
HandlerReturn(run, mailOk) ==
  IF run.outcome = "raised" THEN <<-1>>
  ELSE IF Len(run.products) >= 1
  THEN (IF mailOk THEN <<Len(run.products)>> ELSE <<>>)
  ELSE <<0>>

(* ------------------------------- inputs -------------------------------- *)
Text(day, nums) == <<W(day)>> \o [i \in 1..Len(nums) |-> D(nums[i])]
IdText(n) == <<<<W("item_"), D(n)>>>>
PriceText(n) == <<<<D(n), W("e")>>>>

Container(id, href, desc, title, price, date) ==
  [id |-> id, href |-> href, desc |-> desc, title |-> title, price |-> price, date |-> date]

\* listing containers a page may hold
Containers ==
  { Container(IdText(1), <<"/a">>, TRUE, <<"Peli">>, PriceText(1), <<Text("Tänään", <<7, 55>>)>>),
    Container(IdText(MaxId), <<"/b">>, TRUE, <<"Peli">>, PriceText(2), <<Text("Eilen", <<23, 10>>)>>),
    Container(IdText(MaxId), <<"/c">>, TRUE, <<>>, PriceText(3), <<Text("Tänään", <<7, 55>>)>>),
    Container(IdText(1), <<>>, FALSE, <<>>, <<>>, <<>>),
    Container(IdText(1), <<"/e">>, TRUE, <<"Peli">>, PriceText(1), <<Text("Eilenn", <<26, 59>>)>>),
    Container(IdText(MaxId), <<"/f">>, TRUE, <<"Peli">>, <<<<W("Ilmainen")>>>>, <<Text("Jou", <<12, 10, 20>>)>>),
    Container(<<>>, <<"/g">>, TRUE, <<"Peli">>, PriceText(1), <<Text("Tänään", <<7, 55>>)>>),
    Container(IdText(MaxId), <<"/h">>, TRUE, <<"Peli">>, PriceText(0), <<Text("TÄNÄÄN", <<>>)>>) }

\* how urlopen ends: it raises, or answers with a status
Transports == { [raises |-> TRUE, status |-> 0],
                [raises |-> FALSE, status |-> 200],
                [raises |-> FALSE, status |-> 204] }

ProductIds == 1..MaxId
Schedules == {<<>>, <<0>>, <<5>>}
KeywordLists == {<<>>, <<"lautapeli">>}
PriceLimits == {<<1, 2>>}
StartNow == 10 * SecondsPerDay + 8 * SecondsPerHour
LastNow == StartNow + 16 * SecondsPerHour

NoHandler == [called |-> FALSE, ret |-> <<>>, mailOk |-> FALSE, clients |-> FALSE]
NoSeen == [called |-> FALSE, id |-> 0, up |-> FALSE, raised |-> FALSE, value |-> FALSE]
NoInsert == [called |-> FALSE, id |-> 0, raised |-> FALSE, before |-> {}]
NoInput == [markup |-> <<>>, transport |-> [raises |-> FALSE, status |-> 0], up |-> FALSE,
            now |-> 0, timespan |-> 0, samePage |-> FALSE]

(* ------------------------------- the system ---------------------------- *)
Init ==
  /\ keywords \in KeywordLists
  /\ \E pl \in PriceLimits : price_limit_min = pl[1] /\ price_limit_max = pl[2]
  /\ timespan_sec = 300
  /\ server_time_offset_secs = 0
  /\ last_run = <<>>
  /\ now = StartNow
  /\ \E item \in {NoItem, BareItem, ItemOf({StrOf(1)})} :
       table = [k \in Keys |-> IF k = ReadKey THEN item ELSE NoItem]
  /\ page = <<>>
  /\ unchangedSinceRun = FALSE
  /\ runObs = [run |-> NoRun, in |-> NoInput]
  /\ handlerObs = NoHandler
  /\ seenObs = NoSeen
  /\ insertObs = NoInsert

\* the clock advances
Tick ==
  /\ now < LastNow
  /\ now' = LastNow
  /\ UNCHANGED <<keywords, price_limit_min, price_limit_max, timespan_sec,
                 server_time_offset_secs, last_run, table, page, unchangedSinceRun,
                 runObs, handlerObs, seenObs, insertObs>>

\* the site lists a new container on top of the page
NewListing(el) ==
  /\ Len(page) < MaxContainers
  /\ page' = <<el>> \o page
  /\ unchangedSinceRun' = FALSE
  /\ UNCHANGED <<keywords, price_limit_min, price_limit_max, timespan_sec,
                 server_time_offset_secs, last_run, now, table,
                 runObs, handlerObs, seenObs, insertObs>>

\* what a call of Watcher.run leaves behind, for the run itself and for the
\* handler that calls it
RunEffect(transport, up, timespan) ==
  LET r == WatcherRun(keywords, page, transport, now, table, up,
                      price_limit_min, price_limit_max)
      fetched == r.outcome = "returned" /\ ~transport.raises /\ transport.status = 200
  IN /\ runObs' = [run |-> r,
                   in  |-> [markup |-> page, transport |-> transport, up |-> up, now |-> now,
                            timespan |-> timespan,
                            samePage |-> fetched /\ unchangedSinceRun]]
     /\ last_run' = IF Len(keywords) = 0 THEN last_run ELSE <<now>>
     /\ unchangedSinceRun' = fetched
     /\ UNCHANGED <<table, page>>

\* Watcher.run called directly
Run(transport, up) ==
  /\ RunEffect(transport, up, timespan_sec)
  /\ handlerObs' = NoHandler
  /\ seenObs' = NoSeen
  /\ insertObs' = NoInsert
  /\ UNCHANGED <<keywords, price_limit_min, price_limit_max, timespan_sec,
                 server_time_offset_secs, now>>

\* AWSHandler.run when the SES client cannot be created
HandlerNoClient ==
  /\ handlerObs' = [called |-> TRUE, ret |-> <<-1>>, mailOk |-> FALSE, clients |-> FALSE]
  /\ runObs' = [run |-> NoRun, in |-> NoInput]
  /\ seenObs' = NoSeen
  /\ insertObs' = NoInsert
  /\ UNCHANGED <<keywords, price_limit_min, price_limit_max, timespan_sec,
                 server_time_offset_secs, last_run, now, table, page, unchangedSinceRun>>

\* AWSHandler.run with its clients created
HandlerRun(schedule, transport, up, mailOk) ==
  /\ timespan_sec' = ScheduledTimespan(schedule, timespan_sec)
  /\ RunEffect(transport, up, ScheduledTimespan(schedule, timespan_sec))
  /\ handlerObs' = [called |-> TRUE, ret |-> HandlerReturn(runObs'.run, mailOk),
                    mailOk |-> mailOk, clients |-> TRUE]
  /\ seenObs' = NoSeen
  /\ insertObs' = NoInsert
  /\ UNCHANGED <<keywords, price_limit_min, price_limit_max,
                 server_time_offset_secs, now>>

\* Watcher.is_already_seen called directly
Seen(id, up) ==
  /\ LET r == is_already_seen(id, table, up)
     IN seenObs' = [called |-> TRUE, id |-> id, up |-> up,
                    raised |-> r.raised, value |-> r.value]
  /\ runObs' = [run |-> NoRun, in |-> NoInput]
  /\ handlerObs' = NoHandler
  /\ insertObs' = NoInsert
  /\ UNCHANGED <<keywords, price_limit_min, price_limit_max, timespan_sec,
                 server_time_offset_secs, last_run, now, table, page, unchangedSinceRun>>

\* Watcher.insert_prodcut_dynamo called directly
Insert(id, up, accepted) ==
  /\ LET r == insert_prodcut_dynamo(id, table, up, accepted)
     IN /\ table' = r.table
        /\ insertObs' = [called |-> TRUE, id |-> id, raised |-> r.raised,
                         before |-> {q \in ProductIds : is_already_seen(q, table, TRUE).value}]
        /\ unchangedSinceRun' = (unchangedSinceRun /\ r.raised)
  /\ runObs' = [run |-> NoRun, in |-> NoInput]
  /\ handlerObs' = NoHandler
  /\ seenObs' = NoSeen
  /\ UNCHANGED <<keywords, price_limit_min, price_limit_max, timespan_sec,
                 server_time_offset_secs, last_run, now, page>>

ListingStep == \E el \in Containers : NewListing(el)
RunStep == \E transport \in Transports, up \in BOOLEAN : Run(transport, up)
HandlerStep == \E schedule \in Schedules, transport \in Transports,
                  up \in BOOLEAN, mailOk \in BOOLEAN :
                 HandlerRun(schedule, transport, up, mailOk)
SeenStep == \E id \in ProductIds, up \in BOOLEAN : Seen(id, up)
InsertStep == \E id \in ProductIds, up \in BOOLEAN, accepted \in BOOLEAN :
                Insert(id, up, accepted)

\* the watcher run on its own against the site and the table
NextRun == Tick \/ ListingStep \/ RunStep
SpecRun == Init /\ [][NextRun]_vars

\* the lambda handler against the site and the table
NextHandler == ListingStep \/ HandlerNoClient \/ HandlerStep
SpecHandler == Init /\ [][NextHandler]_vars

\* the two table operations on their own, as time passes
NextStore == Tick \/ SeenStep \/ InsertStep
SpecStore == Init /\ [][NextStore]_vars

\* everything together
Next == Tick \/ ListingStep \/ RunStep \/ HandlerNoClient \/ HandlerStep
          \/ SeenStep \/ InsertStep
Spec == Init /\ [][Next]_vars

(* ------------------------------ properties ----------------------------- *)
RunCalled == runObs.run.outcome # "none"
\* the page as the last run was given it
Page == runObs.in.markup
Returned == runObs.run.outcome = "returned"
\* the last run got the page: urlopen answered 200
Fetched == /\ RunCalled /\ Len(keywords) > 0
           /\ ~runObs.in.transport.raises /\ runObs.in.transport.status = 200
\* the last run's fetch failed: urlopen raised or answered another status
FetchFailed == /\ RunCalled /\ Len(keywords) > 0
               /\ (runObs.in.transport.raises \/ runObs.in.transport.status # 200)
SeenNow(id) == LET r == is_already_seen(id, table, TRUE) IN ~r.raised /\ r.value
InRange(p) == price_limit_min <= p /\ p <= price_limit_max

\* C1: every listing a run returns has its identifier in the persisted
\* seen-set when the run returns, and a run that follows a completed run over
\* the same page, with no write to the table in between, returns no listing.
C1_AcceptedAreRecorded ==
  Returned =>
    /\ \A i \in 1..Len(runObs.run.ids) : SeenNow(runObs.run.ids[i])
    /\ (runObs.in.samePage => runObs.run.products = <<>>)

\* C2: every record a run returns has a publication time, and that time is
\* not older than now - (timespan_sec + server_time_offset_secs).
C2_ReturnedWithinWindow ==
  Returned =>
    \A i \in 1..Len(runObs.run.products) :
      /\ runObs.run.products[i].pub_time # <<>>
      /\ runObs.run.products[i].pub_time[1]
           >= runObs.in.now - (runObs.in.timespan + server_time_offset_secs)

\* C3: with an empty keyword list Watcher.run raises before the fetch: urlopen
\* gets no call, is_already_seen is not asked and the table is left as it was.
C3_EmptyKeywordsRaiseBeforeFetch ==
  [][(Len(keywords) = 0 /\ RunStep) =>
       /\ runObs'.run.outcome = "raised"
       /\ runObs'.run.urlopen = 0
       /\ runObs'.run.queries = <<>>
       /\ table' = table]_vars

C3_Witness ==
  /\ Len(keywords) = 0
  /\ runObs.run.outcome = "raised"
  /\ Len(Page) >= 1
  /\ table[ReadKey].exists

\* C4: with no item under the run key, or an item without a product set,
\* is_already_seen returns False for every id and raises nothing.
C4_MissingRecordIsEmptySet ==
  (seenObs.called /\ seenObs.up /\ ProductsNS(table[ReadKey]) = {}) =>
    (~seenObs.raised /\ seenObs.value = FALSE)

\* C5: insert_prodcut_dynamo is an idempotent union on the item
\* is_already_seen reads: after a write that succeeded the written id is seen,
\* every id seen before is still seen, and writing the same id again changes
\* the answer of is_already_seen for no id.
C5_WriteIsUnionOnReadItem ==
  (insertObs.called /\ ~insertObs.raised) =>
    /\ SeenNow(insertObs.id)
    /\ \A q \in insertObs.before : SeenNow(q)
    /\ \A q \in ProductIds :
         is_already_seen(q, insert_prodcut_dynamo(insertObs.id, table, TRUE, TRUE).table, TRUE)
           = is_already_seen(q, table, TRUE)

\* C6: AWSHandler.run returns the number of listings Watcher.run returned, or
\* -1 on error, and nothing else; with n >= 1 listings it returns n whether
\* the email was sent or the send raised.
C6_HandlerReturnsCount ==
  handlerObs.called =>
    /\ handlerObs.ret \in {<<n>> : n \in -1..MaxContainers}
    /\ (handlerObs.clients /\ Returned /\ Len(runObs.run.products) >= 1
          => handlerObs.ret = <<Len(runObs.run.products)>>)

\* C7: a field that cannot be extracted from a container never halts the run:
\* with the page fetched and the table answering, run returns a list, and it
\* went through every container unless the loop was broken.
C7_FieldFailureNeverHalts ==
  (Fetched /\ runObs.in.up /\ table[ReadKey].exists) =>
    /\ Returned
    /\ (runObs.run.brokeAt = 0 => runObs.run.entered = Len(Page))

\* C8: is_within_pricelimit is true for an absent price and, for a price p,
\* true exactly when price_limit_min <= p <= price_limit_max; so every record
\* a run returns has no price or a price inside the inclusive range.
C8_PriceRule ==
  /\ is_within_pricelimit(<<>>, price_limit_min, price_limit_max)
  /\ \A p \in (price_limit_min - 1)..(price_limit_max + 1) :
       is_within_pricelimit(<<p>>, price_limit_min, price_limit_max) <=> InRange(p)
  /\ Returned =>
       \A i \in 1..Len(runObs.run.products) :
         \/ runObs.run.products[i].price = <<>>
         \/ InRange(runObs.run.products[i].price[1])

C8_Witness ==
  /\ Fetched /\ Returned
  /\ runObs.run.entered = Len(Page)
  /\ \E i \in 1..Len(runObs.run.products) :
       /\ runObs.run.products[i].price # <<>>
       /\ runObs.run.products[i].price[1] = price_limit_max
  /\ \E i \in 1..Len(Page) :
       /\ ElementPrice(Page[i]) # <<>>
       /\ ~InRange(ElementPrice(Page[i])[1])
       /\ ~SeenNow(ElementId(Page[i])[1])

\* C9: a fetch that raises and a fetch answered with a status other than 200
\* end the same way: run returns an empty list, raises nothing, begins no
\* container, asks is_already_seen nothing and leaves the table as it was.
C9_FetchFailureEmptyResult ==
  [][(FetchFailed' /\ RunStep) =>
       /\ runObs'.run = [NoRun EXCEPT !.outcome = "returned", !.urlopen = 1]
       /\ table' = table]_vars

C9_Witness ==
  /\ FetchFailed
  /\ ~runObs.in.transport.raises
  /\ Returned
  /\ runObs.in.up /\ table[ReadKey].exists
  /\ Len(Page) >= 1
  /\ WatcherRun(keywords, Page, [raises |-> FALSE, status |-> 200], runObs.in.now,
                table, TRUE, price_limit_min, price_limit_max).products # <<>>

\* the day words of a text name today or yesterday
DayTokenKnown(time_str) ==
  \E tok \in Range(time_str) :
    /\ tok.k = "w"
    /\ (WordContains(Lower(tok.w), "tänään") \/ WordContains(Lower(tok.w), "eilen"))

\* container i has a today/yesterday text that get_timestamp cannot resolve
Unresolved(i) ==
  /\ Page[i].desc /\ Page[i].date # <<>>
  /\ DayTokenKnown(Page[i].date[1])
  /\ get_timestamp(Page[i].date[1], runObs.in.now) = <<>>

====
